---- MODULE Spec2Model ----
(***************************************************************************)
(* Model of src/dp/core/cpu.c: support for multicore and percpu data.      *)
(*                                                                         *)
(*   cpu_run_on_one      queue a function for another core (lines 91-115)  *)
(*   cpu_do_bookkeeping  run the functions queued for this core (120-138)  *)
(*   cpu_init_percpu     allocate a core's percpu window (140-158)         *)
(*   cpu_init_one        bring one core up (172-224)                       *)
(*   parse_cpuinfo       read the processor -> apicid table (226-268)      *)
(*   cpu_init            detect the cores, create the datastore (275-297)  *)
(*                                                                         *)
(* Four specifications share the variables:                                *)
(*   Spec      the run lists, on a machine whose cores are all up;         *)
(*   SpecBoot  cpu_init followed by cpu_init_one on every core;            *)
(*   SpecScan  cpu_init alone, the /proc/cpuinfo it read observed;         *)
(*   SpecEarly the cores coming up while the cores that are up submit.     *)
(***************************************************************************)
EXTENDS Integers, Sequences, FiniteSets, TLC

(***************************************************************************)
(* Bounds of the model.  NCPU (ix/cpu.h) and MAX_RUNNERS (line 79, 1024 in *)
(* the source) are scaled down so that a pool can be exhausted.            *)
(***************************************************************************)
NCPU == 2

MAX_RUNNERS == 2

MaxSubmits == 3

MaxDrains == 2

MaxLines == 4

NULL == 0

Cores == 0 .. (NCPU - 1)

\* the cpu arguments a caller passes: every core, and one index past the table
CpuArgs == 0 .. NCPU

\* the functions callers queue: the k-th cpu_run_on_one call of a run passes
\* FuncOf(k) as func and k, a value no other call passes, as data
FuncOf(k) == IF k % 2 = 1 THEN "f" ELSE "g"

Tickets == 1 .. MaxSubmits

\* struct cpu_runner objects: MAX_RUNNERS per core's mempool
Runners == 1 .. (NCPU * MAX_RUNNERS)

NoHolder == NCPU

VARIABLES
    \* ---- process globals (lines 43-81)
    cpu_count,          \* int cpu_count
    cpus_active,        \* int cpus_active
    runners_datastore,  \* the datastore has been created
    apicid_map,         \* apicid_map[NCPU]: slot -> [processor, apicid]
    percpu_offsets,     \* percpu_offsets[NCPU]: core -> window or NULL
    \* ---- percpu variables, one copy per core
    cpu_id, cpu_numa_node, apicid,
    next_runner,        \* runlist.next_runner
    lock,               \* runlist.lock: the core that holds it, or NoHolder
    pool,               \* runners_mempool: the free list of the core's pool
    mempool_created,    \* runners_mempool has been created
    \* ---- the heap of struct cpu_runner
    runners,            \* runner -> [next, func, data]
    \* ---- each core's thread
    pc,                 \* position in cpu_do_bookkeeping
    sub,                \* position in cpu_run_on_one
    s_runner, s_cpu,    \* cpu_run_on_one: runner, cpu
    d_runner, d_last,   \* cpu_do_bookkeeping: runner, last
    \* ---- boot
    init_pc, init_ret,  \* cpu_init: position, return value
    bpc, bret,          \* cpu_init_one per core: position, return value
    b_tmp, b_numa, b_pcpu,  \* cpu_init_one: tmp, numa_node, pcpu
    in_dune,            \* dune_enter_ex succeeded on the core's thread
    stages,             \* per core: the stages cpu_init_one has executed
    init_trace,         \* the stages cpu_init has executed
    scan_count,         \* parse_cpuinfo: count when it returned
    cpuinfo,            \* the /proc/cpuinfo that parse_cpuinfo was given
    \* ---- observations
    nsub,               \* cpu_run_on_one calls made so far
    hist,               \* call -> what was asked and what came of it
    log,                \* core -> the functions it ran: [func, data, call]
    calls,              \* core -> cpu_do_bookkeeping calls started
    pushseq,            \* core -> data of the runners pushed on its list
    taken, takenPrev    \* core -> Len(pushseq) at its last two swaps

globalVars == <<cpu_count, cpus_active, runners_datastore, apicid_map,
                percpu_offsets>>

percpuVars == <<cpu_id, cpu_numa_node, apicid, mempool_created>>

scanVars == <<scan_count, cpuinfo>>

bootVars == <<init_pc, init_ret, bpc, bret, b_tmp, b_numa, b_pcpu, in_dune,
              stages, init_trace, scanVars>>

listVars == <<next_runner, lock, pool, runners>>

threadVars == <<pc, sub, s_runner, s_cpu, d_runner, d_last>>

obsVars == <<nsub, hist, log, calls, pushseq, taken, takenPrev>>

vars == <<globalVars, percpuVars, bootVars, listVars, threadVars, obsVars>>

(***************************************************************************)
(* The fixed-capacity pool service (ix/mempool.h): a free list per pool.   *)
(***************************************************************************)
\* mempool_alloc: the object handed out, NULL when the pool has none
mempool_alloc(p) == IF pool[p] = <<>> THEN NULL ELSE Head(pool[p])

\* the pools after mempool_alloc(p)
mempool_after_alloc(p) ==
    IF pool[p] = <<>> THEN pool ELSE [pool EXCEPT ![p] = Tail(pool[p])]

\* the pools after mempool_free(p, obj)
mempool_after_free(p, obj) == [pool EXCEPT ![p] = <<obj>> \o pool[p]]

\* the objects a freshly created pool of core c holds
PoolOf(c) == [i \in 1 .. MAX_RUNNERS |-> c * MAX_RUNNERS + i]

(***************************************************************************)
(* cpu_run_on_one (lines 91-115) and cpu_do_bookkeeping (lines 120-138),   *)
(* line by line.                                                           *)
(***************************************************************************)
\* ValidCpu with the comparison off by one: cpu > cpu_count at line 96
ValidCpuOffByOne(cpu) == cpu <= cpu_count

\* line 96, negated: the cpu argument names a core
ValidCpu(cpu) == cpu < cpu_count

\* line 99: percpu_get(runners_mempool) is the pool of the calling core
AllocPool(self, cpu) == self

\* line 135: percpu_get(runners_mempool) is the pool of the draining core
FreePool(self) == self

\* RemoteList that takes the caller's own list: percpu_get(runlist)
RemoteListOwn(self, cpu) == self

\* line 107: rlist = &percpu_get_remote(runlist, cpu), the list of core cpu
RemoteList(self, cpu) == cpu

\* FillRunner without line 103: the runner keeps the func it last held
FillRunnerStaleFunc(r, func, data) ==
    [runners EXCEPT ![r] = [next |-> NULL, func |-> runners[r].func, data |-> data]]

\* lines 103-105
FillRunner(r, func, data) ==
    [runners EXCEPT ![r] = [next |-> NULL, func |-> func, data |-> data]]

\* LinkRunner without line 110: the runner's next stays NULL
LinkRunnerDropped(r, cpu) == runners

\* line 110: runner->next = rlist->next_runner
LinkRunner(r, cpu) == [runners EXCEPT ![r].next = next_runner[cpu]]

\* line 111: rlist->next_runner = runner
PushHead(r, cpu) == [next_runner EXCEPT ![cpu] = r]

\* ClearHead without line 128: the list keeps its head
ClearHeadForgotten(self) == next_runner

\* line 128: rlist->next_runner = NULL
ClearHead(self) == [next_runner EXCEPT ![self] = NULL]

\* NextRunner that goes on with the live list when the captured chain ends
NextRunnerUntilEmpty(self) ==
    IF runners[d_runner[self]].next # NULL
    THEN runners[d_runner[self]].next
    ELSE next_runner[self]

\* line 134: runner->next
NextRunner(self) == runners[d_runner[self]].next

\* FreedRunner that frees runner after line 134 has advanced it
FreedRunnerAdvanced(self) == NextRunner(self)

\* line 135: the runner handed to mempool_free is last
FreedRunner(self) == d_last[self]

\* spin_lock (lines 109, 126) can be taken
LockFree(cpu) == lock[cpu] = NoHolder

\* HeadSeen without the test: the swap and the walk are made on every call
HeadSeenAlways(self) == TRUE

\* line 125: rlist->next_runner is not NULL, read without the lock
HeadSeen(self) == next_runner[self] # NULL

\* spin_unlock that leaves the lock held
spin_unlock_skipped(cpu) == lock

\* spin_unlock (lines 112, 129)
spin_unlock(cpu) == [lock EXCEPT ![cpu] = NoHolder]

\* the core is past the swap of a cpu_do_bookkeeping call (lines 129-136)
Draining(c) == pc[c] \in {"unlock", "call", "exec"}

\* lines 96-105: the checks, the allocation, the runner's fields
RunOnOne_Call(self, cpu) ==
    /\ sub[self] = "none"
    /\ pc[self] \in {"idle", "exec"}
    /\ nsub < MaxSubmits
    /\ LET k == nsub + 1
           r == mempool_alloc(AllocPool(self, cpu))
           asked == [by |-> self, cpu |-> cpu, func |-> FuncOf(k), st |-> "inflight",
                     retCalls |-> 0, during |-> FALSE, pushCall |-> 0]
       IN  /\ nsub' = k
           /\ IF ~ValidCpu(cpu)
              THEN /\ hist' = [hist EXCEPT ![k] = [asked EXCEPT !.st = "EINVAL"]]
                   /\ UNCHANGED <<pool, runners, sub, s_runner, s_cpu>>
              ELSE IF r = NULL
              THEN /\ hist' = [hist EXCEPT ![k] = [asked EXCEPT !.st = "ENOMEM"]]
                   /\ UNCHANGED <<pool, runners, sub, s_runner, s_cpu>>
              ELSE /\ pool' = mempool_after_alloc(AllocPool(self, cpu))
                   /\ runners' = FillRunner(r, FuncOf(k), k)
                   /\ s_runner' = [s_runner EXCEPT ![self] = r]
                   /\ s_cpu' = [s_cpu EXCEPT ![self] = RemoteList(self, cpu)]
                   /\ sub' = [sub EXCEPT ![self] = "lock"]
                   /\ hist' = [hist EXCEPT ![k] = asked]
    /\ UNCHANGED <<globalVars, percpuVars, bootVars, next_runner, lock,
                   pc, d_runner, d_last, log, calls, pushseq, taken, takenPrev>>

\* lines 109-111: spin_lock, then the push under the lock
RunOnOne_LockPush(self) ==
    /\ sub[self] = "lock"
    /\ LockFree(s_cpu[self])
    /\ LET r == s_runner[self]
           cpu == s_cpu[self]
           k == runners[r].data
       IN  /\ lock' = [lock EXCEPT ![cpu] = self]
           /\ runners' = LinkRunner(r, cpu)
           /\ next_runner' = PushHead(r, cpu)
           /\ pushseq' = [pushseq EXCEPT ![cpu] = Append(@, k)]
           /\ hist' = [hist EXCEPT ![k].st = "pushed",
                                   ![k].during = Draining(cpu),
                                   ![k].pushCall = calls[cpu]]
    /\ sub' = [sub EXCEPT ![self] = "unlock"]
    /\ UNCHANGED <<globalVars, percpuVars, bootVars, pool,
                   pc, s_runner, s_cpu, d_runner, d_last,
                   nsub, log, calls, taken, takenPrev>>

\* lines 112-114: spin_unlock, return 0
RunOnOne_Unlock(self) ==
    /\ sub[self] = "unlock"
    /\ LET cpu == s_cpu[self]
           k == runners[s_runner[self]].data
       IN  /\ lock' = spin_unlock(cpu)
           /\ hist' = [hist EXCEPT ![k].st = "OK", ![k].retCalls = calls[cpu]]
    /\ sub' = [sub EXCEPT ![self] = "none"]
    /\ s_runner' = [s_runner EXCEPT ![self] = NULL]
    /\ s_cpu' = [s_cpu EXCEPT ![self] = 0]
    /\ UNCHANGED <<globalVars, percpuVars, bootVars, next_runner, pool, runners,
                   pc, d_runner, d_last, nsub, log, calls, pushseq, taken,
                   takenPrev>>

\* line 125: the test of rlist->next_runner, made without the lock
Bookkeeping_Check(self) ==
    /\ pc[self] = "idle"
    /\ sub[self] = "none"
    /\ calls[self] < MaxDrains
    /\ calls' = [calls EXCEPT ![self] = @ + 1]
    /\ pc' = [pc EXCEPT ![self] = IF HeadSeen(self) THEN "lock" ELSE "idle"]
    /\ UNCHANGED <<globalVars, percpuVars, bootVars, listVars, sub, s_runner,
                   s_cpu, d_runner, d_last, nsub, hist, log, pushseq,
                   taken, takenPrev>>

\* lines 126-128: spin_lock; runner = rlist->next_runner;
\* rlist->next_runner = NULL
Bookkeeping_LockSwap(self) ==
    /\ pc[self] = "lock"
    /\ LockFree(self)
    /\ lock' = [lock EXCEPT ![self] = self]
    /\ d_runner' = [d_runner EXCEPT ![self] = next_runner[self]]
    /\ next_runner' = ClearHead(self)
    /\ takenPrev' = [takenPrev EXCEPT ![self] = taken[self]]
    /\ taken' = [taken EXCEPT ![self] = Len(pushseq[self])]
    /\ pc' = [pc EXCEPT ![self] = "unlock"]
    /\ UNCHANGED <<globalVars, percpuVars, bootVars, pool, runners,
                   sub, s_runner, s_cpu, d_last, nsub, hist, log, calls,
                   pushseq>>

\* line 129: spin_unlock(&rlist->lock)
Bookkeeping_Unlock(self) ==
    /\ pc[self] = "unlock"
    /\ lock' = spin_unlock(self)
    /\ pc' = [pc EXCEPT ![self] = "call"]
    /\ UNCHANGED <<globalVars, percpuVars, bootVars, next_runner, pool, runners,
                   sub, s_runner, s_cpu, d_runner, d_last, obsVars>>

\* lines 132-133: last = runner; runner->func(runner->data) is entered
Bookkeeping_Exec(self) ==
    /\ pc[self] = "call"
    /\ LET r == d_runner[self]
       IN  /\ d_last' = [d_last EXCEPT ![self] = r]
           /\ log' = [log EXCEPT ![self] =
                        Append(@, [func |-> runners[r].func,
                                   data |-> runners[r].data,
                                   call |-> calls[self]])]
    /\ pc' = [pc EXCEPT ![self] = "exec"]
    /\ UNCHANGED <<globalVars, percpuVars, bootVars, listVars, sub, s_runner,
                   s_cpu, d_runner, nsub, hist, calls, pushseq, taken,
                   takenPrev>>

\* lines 133-136: the function returns; runner = runner->next;
\* mempool_free(last); the loop test
Bookkeeping_Free(self) ==
    /\ pc[self] = "exec"
    /\ sub[self] = "none"
    /\ d_runner' = [d_runner EXCEPT ![self] = NextRunner(self)]
    /\ pool' = mempool_after_free(FreePool(self), FreedRunner(self))
    /\ d_last' = [d_last EXCEPT ![self] = NULL]
    /\ pc' = [pc EXCEPT ![self] = IF NextRunner(self) # NULL THEN "call" ELSE "idle"]
    /\ UNCHANGED <<globalVars, percpuVars, bootVars, next_runner, lock, runners,
                   sub, s_runner, s_cpu, obsVars>>

NoCall == [by |-> 0, cpu |-> 0, func |-> "", st |-> "none", retCalls |-> 0,
           during |-> FALSE, pushCall |-> 0]

\* the run lists of zeroed windows (line 152), no call made yet
ListInit ==
    /\ next_runner = [c \in Cores |-> NULL]
    /\ lock = [c \in Cores |-> NoHolder]
    /\ runners = [r \in Runners |-> [next |-> NULL, func |-> "", data |-> 0]]
    /\ pc = [c \in Cores |-> "idle"]
    /\ sub = [c \in Cores |-> "none"]
    /\ s_runner = [c \in Cores |-> NULL]
    /\ s_cpu = [c \in Cores |-> 0]
    /\ d_runner = [c \in Cores |-> NULL]
    /\ d_last = [c \in Cores |-> NULL]
    /\ nsub = 0
    /\ hist = [k \in Tickets |-> NoCall]
    /\ log = [c \in Cores |-> <<>>]
    /\ calls = [c \in Cores |-> 0]
    /\ pushseq = [c \in Cores |-> <<>>]
    /\ taken = [c \in Cores |-> 0]
    /\ takenPrev = [c \in Cores |-> 0]

(***************************************************************************)
(* parse_cpuinfo (lines 226-268).  A line of /proc/cpuinfo is its key, and *)
(* whether sscanf read a number after it, and the number.                  *)
(***************************************************************************)
ApicIds == {10, 11}

NumaNodes == {0, 1}

\* what an uninitialized int holds: a core's index, or none
Garbage == {0, NCPU + 1}

Lines ==
    [key : {"processor"}, ok : {TRUE}, val : Cores]
    \cup [key : {"apicid"}, ok : {TRUE}, val : ApicIds]
    \cup [key : {"processor", "apicid"}, ok : {FALSE}, val : {0}]
    \cup [key : {"other", "error"}, ok : {TRUE}, val : {0}]

ApicLines(f) == {i \in 1 .. Len(f) : f[i].key = "apicid"}

\* the files: at most MaxLines lines, and no more apicid lines than
\* apicid_map has slots
Files ==
    {f \in UNION {[1 .. n -> Lines] : n \in 0 .. MaxLines} :
        Cardinality(ApicLines(f)) <= NCPU}

Slots == 0 .. (NCPU - 1)

\* static storage is zeroed (lines 70-73)
ZeroTable == [i \in Slots |-> [processor |-> 0, apicid |-> 0]]

RECURSIVE ParseFrom(_, _, _, _, _)
\* lines 236-263, from line i of f on
ParseFrom(f, i, processor, table, count) ==
    IF i > Len(f) THEN [ret |-> "OK", table |-> table, count |-> count]
    ELSE IF f[i].key = "error" THEN [ret |-> "EIO", table |-> table, count |-> count]
    ELSE IF f[i].key = "processor"
    THEN IF ~f[i].ok THEN [ret |-> "EIO", table |-> table, count |-> count]
         ELSE ParseFrom(f, i + 1, f[i].val, table, count)
    ELSE IF f[i].key = "apicid"
    THEN IF ~f[i].ok THEN [ret |-> "EIO", table |-> table, count |-> count]
         ELSE ParseFrom(f, i + 1, processor,
                        [table EXCEPT ![count] = [processor |-> processor,
                                                  apicid |-> f[i].val]],
                        count + 1)
    ELSE ParseFrom(f, i + 1, processor, table, count)

\* parse_cpuinfo on file f; fopen may fail; processor starts uninitialized
parse_cpuinfo(opened, f, garbage) ==
    IF ~opened THEN [ret |-> "EIO", table |-> apicid_map, count |-> 0]
    ELSE ParseFrom(f, 1, garbage, apicid_map, 0)

(***************************************************************************)
(* cpu_init (lines 275-297)                                                *)
(***************************************************************************)
\* CountOutOfRange that lets a count of 0 through
CountOutOfRangeZeroPasses(n) == n < 0 \/ n > NCPU

\* line 281
CountOutOfRange(n) == n <= 0 \/ n > NCPU

\* the counts sysconf may report: none, an error, too many
Counts == (0 - 1) .. (NCPU + 1)

cpu_init(n, created, opened, f, garbage) ==
    /\ init_pc = "start"
    /\ init_pc' = "done"
    /\ cpu_count' = n
    /\ IF CountOutOfRange(n)
       THEN /\ init_ret' = "EINVAL"
            /\ UNCHANGED <<runners_datastore, apicid_map, init_trace, scan_count>>
       ELSE IF ~created
       THEN /\ init_ret' = "ENOMEM"
            /\ init_trace' = <<"datastore">>
            /\ UNCHANGED <<runners_datastore, apicid_map, scan_count>>
       ELSE /\ runners_datastore' = TRUE
            /\ init_trace' = <<"datastore", "scan">>
            /\ apicid_map' = parse_cpuinfo(opened, f, garbage).table
            /\ init_ret' = parse_cpuinfo(opened, f, garbage).ret
            /\ scan_count' = parse_cpuinfo(opened, f, garbage).count
    /\ UNCHANGED <<cpus_active, percpu_offsets, percpuVars, bpc, bret, b_tmp,
                   b_numa, b_pcpu, in_dune, stages, listVars, threadVars,
                   obsVars>>

(***************************************************************************)
(* cpu_init_percpu (lines 140-158) and cpu_init_one (lines 172-224)        *)
(***************************************************************************)
\* what a percpu variable reads before its core has a window
Unset == 0 - 1

\* the window mem_alloc_pages_onnode hands out for a core
WindowOf(cpu) == cpu + 1

\* line 179, negated
CpuInRange(cpu) == cpu < cpu_count

\* line 192, negated: the thread runs on the core it asked for
Migrated(cpu, tmp) == cpu = tmp

\* WindowMissing that never reports the failure
WindowMissingIgnored(pcpu) == FALSE

\* line 198: cpu_init_percpu returned NULL
WindowMissing(pcpu) == pcpu = NULL

RECURSIVE FindSlot(_, _)
\* lines 209-211: the first slot from i on whose processor is cpu, else NCPU
FindSlot(cpu, i) ==
    IF i >= NCPU THEN NCPU
    ELSE IF apicid_map[i].processor = cpu THEN i
    ELSE FindSlot(cpu, i + 1)

\* LookupSlot that takes the slot at index cpu, without the search
LookupSlotByIndex(cpu) == cpu

\* lines 209-211
LookupSlot(cpu) == FindSlot(cpu, 0)

\* OffsetsAfter without the test of line 147: the entry is written whether
\* or not the pages were mapped
OffsetsAfterUnchecked(cpu, mapped) ==
    [percpu_offsets EXCEPT ![cpu] = WindowOf(cpu)]

\* percpu_offsets after cpu_init_percpu: written at line 155, which the
\* return of line 148 skips
OffsetsAfter(cpu, mapped) ==
    IF mapped THEN [percpu_offsets EXCEPT ![cpu] = WindowOf(cpu)]
    ELSE percpu_offsets

\* cpu_init_percpu: NULL when mem_alloc_pages_onnode fails (lines 145-148)
cpu_init_percpu(cpu, mapped) == IF mapped THEN WindowOf(cpu) ELSE NULL

Returned(cpu, r) ==
    /\ bpc' = [bpc EXCEPT ![cpu] = "done"]
    /\ bret' = [bret EXCEPT ![cpu] = r]

\* lines 179-186: the range check, sched_setaffinity
InitOne_Bind(cpu, bound) ==
    /\ init_pc = "done" /\ init_ret = "OK"
    /\ bpc[cpu] = "start"
    /\ IF ~CpuInRange(cpu)
       THEN Returned(cpu, "EINVAL") /\ UNCHANGED stages
       ELSE /\ stages' = [stages EXCEPT ![cpu] = Append(@, "bind")]
            /\ IF ~bound
               THEN Returned(cpu, "EPERM")
               ELSE bpc' = [bpc EXCEPT ![cpu] = "getcpu"] /\ UNCHANGED bret
    /\ UNCHANGED <<globalVars, percpuVars, init_pc, init_ret, init_trace, scanVars, b_tmp,
                   b_numa, b_pcpu, in_dune, listVars, threadVars, obsVars>>

\* lines 188-195: getcpu reports the running core and its numa node, then
\* the running core is compared with the one asked for
InitOne_GetCpu(cpu, ok, tmp, numa) ==
    /\ bpc[cpu] = "getcpu"
    /\ IF ~ok
       THEN /\ stages' = [stages EXCEPT ![cpu] = Append(@, "query")]
            /\ Returned(cpu, "ENOSYS")
            /\ UNCHANGED <<b_tmp, b_numa>>
       ELSE /\ stages' = [stages EXCEPT ![cpu] = @ \o <<"query", "check">>]
            /\ b_tmp' = [b_tmp EXCEPT ![cpu] = tmp]
            /\ b_numa' = [b_numa EXCEPT ![cpu] = numa]
            /\ IF ~Migrated(cpu, tmp)
               THEN Returned(cpu, "EINVAL")
               ELSE bpc' = [bpc EXCEPT ![cpu] = "percpu"] /\ UNCHANGED bret
    /\ UNCHANGED <<globalVars, percpuVars, init_pc, init_ret, init_trace, scanVars,
                   b_pcpu, in_dune, listVars, threadVars, obsVars>>

\* lines 197-199 and 140-158: the window; its percpu area is zeroed (line
\* 152) and recorded in percpu_offsets (line 155)
InitOne_Percpu(cpu, mapped) ==
    /\ bpc[cpu] = "percpu"
    /\ stages' = [stages EXCEPT ![cpu] = Append(@, "window")]
    /\ b_pcpu' = [b_pcpu EXCEPT ![cpu] = cpu_init_percpu(cpu, mapped)]
    /\ percpu_offsets' = OffsetsAfter(cpu, mapped)
    /\ IF mapped
       THEN /\ cpu_id' = [cpu_id EXCEPT ![cpu] = 0]
            /\ cpu_numa_node' = [cpu_numa_node EXCEPT ![cpu] = 0]
            /\ apicid' = [apicid EXCEPT ![cpu] = 0]
       ELSE UNCHANGED <<cpu_id, cpu_numa_node, apicid>>
    /\ IF WindowMissing(cpu_init_percpu(cpu, mapped))
       THEN Returned(cpu, "ENOMEM")
       ELSE bpc' = [bpc EXCEPT ![cpu] = "dune"] /\ UNCHANGED bret
    /\ UNCHANGED <<cpu_count, cpus_active, runners_datastore, apicid_map,
                   mempool_created, init_pc, init_ret, init_trace, scanVars, b_tmp,
                   b_numa, in_dune, listVars, threadVars, obsVars>>

\* lines 201-205: dune_enter_ex(pcpu)
InitOne_Dune(cpu, r) ==
    /\ bpc[cpu] = "dune"
    /\ stages' = [stages EXCEPT ![cpu] = Append(@, "enter")]
    /\ IF r # "OK"
       THEN Returned(cpu, r) /\ UNCHANGED in_dune
       ELSE /\ in_dune' = [in_dune EXCEPT ![cpu] = TRUE]
            /\ bpc' = [bpc EXCEPT ![cpu] = "registry"]
            /\ UNCHANGED bret
    /\ UNCHANGED <<globalVars, percpuVars, init_pc, init_ret, init_trace, scanVars, b_tmp,
                   b_numa, b_pcpu, listVars, threadVars, obsVars>>

\* lines 207-214: cpu_id, cpu_numa_node, the search of apicid_map, the
\* assertion, apicid
InitOne_Registry(cpu) ==
    /\ bpc[cpu] = "registry"
    /\ stages' = [stages EXCEPT ![cpu] = Append(@, "registry")]
    /\ cpu_id' = [cpu_id EXCEPT ![cpu] = cpu]
    /\ cpu_numa_node' = [cpu_numa_node EXCEPT ![cpu] = b_numa[cpu]]
    /\ IF LookupSlot(cpu) < NCPU
       THEN /\ apicid' = [apicid EXCEPT ![cpu] = apicid_map[LookupSlot(cpu)].apicid]
            /\ bpc' = [bpc EXCEPT ![cpu] = "pool"]
       ELSE /\ bpc' = [bpc EXCEPT ![cpu] = "aborted"]
            /\ UNCHANGED apicid
    /\ UNCHANGED <<globalVars, mempool_created, init_pc, init_ret, init_trace, scanVars,
                   bret, b_tmp, b_numa, b_pcpu, in_dune, listVars, threadVars,
                   obsVars>>

\* lines 216-223: mempool_create, return 0
InitOne_Pool(cpu, r) ==
    /\ bpc[cpu] = "pool"
    /\ stages' = [stages EXCEPT ![cpu] = Append(@, "pool")]
    /\ IF r # "OK"
       THEN UNCHANGED <<mempool_created, pool>>
       ELSE /\ mempool_created' = [mempool_created EXCEPT ![cpu] = TRUE]
            /\ pool' = [pool EXCEPT ![cpu] = PoolOf(cpu)]
    /\ Returned(cpu, r)
    /\ UNCHANGED <<globalVars, cpu_id, cpu_numa_node, apicid, init_pc, init_ret,
                   init_trace, scanVars, b_tmp, b_numa, b_pcpu, in_dune, next_runner,
                   lock, runners, threadVars, obsVars>>

\* the stages of cpu_init_one in the order of its text
StageOrder == <<"bind", "query", "check", "window", "enter", "registry", "pool">>

(***************************************************************************)
(* The specifications                                                      *)
(***************************************************************************)
\* no /proc/cpuinfo has been observed
NoFile == [read |-> FALSE, opened |-> FALSE, file |-> <<>>]

\* before cpu_init: static storage is zeroed, no core has a window
BootInit ==
    /\ cpu_count = 0
    /\ cpus_active = 0
    /\ runners_datastore = FALSE
    /\ apicid_map = ZeroTable
    /\ percpu_offsets = [c \in Cores |-> NULL]
    /\ cpu_id = [c \in Cores |-> Unset]
    /\ cpu_numa_node = [c \in Cores |-> Unset]
    /\ apicid = [c \in Cores |-> Unset]
    /\ mempool_created = [c \in Cores |-> FALSE]
    /\ pool = [c \in Cores |-> <<>>]
    /\ init_pc = "start"
    /\ init_ret = "none"
    /\ init_trace = <<>>
    /\ scan_count = 0
    /\ cpuinfo = NoFile
    /\ bpc = [c \in Cores |-> "start"]
    /\ bret = [c \in Cores |-> "none"]
    /\ b_tmp = [c \in Cores |-> Unset]
    /\ b_numa = [c \in Cores |-> Unset]
    /\ b_pcpu = [c \in Cores |-> NULL]
    /\ in_dune = [c \in Cores |-> FALSE]
    /\ stages = [c \in Cores |-> <<>>]
    /\ ListInit

\* after cpu_init and a cpu_init_one that returned 0 on every core, on a
\* machine with NCPU cores on one numa node
UpInit ==
    /\ cpu_count = NCPU
    /\ cpus_active = 0
    /\ runners_datastore = TRUE
    /\ apicid_map = [i \in Slots |-> [processor |-> i, apicid |-> 10 + i]]
    /\ percpu_offsets = [c \in Cores |-> WindowOf(c)]
    /\ cpu_id = [c \in Cores |-> c]
    /\ cpu_numa_node = [c \in Cores |-> 0]
    /\ apicid = [c \in Cores |-> 10 + c]
    /\ mempool_created = [c \in Cores |-> TRUE]
    /\ pool = [c \in Cores |-> PoolOf(c)]
    /\ init_pc = "done"
    /\ init_ret = "OK"
    /\ init_trace = <<"datastore", "scan">>
    /\ scan_count = NCPU
    /\ cpuinfo = NoFile
    /\ bpc = [c \in Cores |-> "done"]
    /\ bret = [c \in Cores |-> "OK"]
    /\ b_tmp = [c \in Cores |-> c]
    /\ b_numa = [c \in Cores |-> 0]
    /\ b_pcpu = [c \in Cores |-> WindowOf(c)]
    /\ in_dune = [c \in Cores |-> TRUE]
    /\ stages = [c \in Cores |-> StageOrder]
    /\ ListInit

Init == UpInit

Next ==
    \/ \E self \in Cores, cpu \in CpuArgs : RunOnOne_Call(self, cpu)
    \/ \E self \in Cores : RunOnOne_LockPush(self)
    \/ \E self \in Cores : RunOnOne_Unlock(self)
    \/ \E self \in Cores : Bookkeeping_Check(self)
    \/ \E self \in Cores : Bookkeeping_LockSwap(self)
    \/ \E self \in Cores : Bookkeeping_Unlock(self)
    \/ \E self \in Cores : Bookkeeping_Exec(self)
    \/ \E self \in Cores : Bookkeeping_Free(self)

Spec == Init /\ [][Next]_vars

NextBoot ==
    \/ /\ init_pc = "start"
       /\ \E n \in Counts, created \in BOOLEAN, opened \in BOOLEAN,
             f \in Files, garbage \in Garbage :
                cpu_init(n, created, opened, f, garbage) /\ UNCHANGED cpuinfo
    \/ \E cpu \in Cores, bound \in BOOLEAN : InitOne_Bind(cpu, bound)
    \/ \E cpu \in Cores, ok \in BOOLEAN, tmp \in Cores, numa \in NumaNodes :
          InitOne_GetCpu(cpu, ok, tmp, numa)
    \/ \E cpu \in Cores, mapped \in BOOLEAN : InitOne_Percpu(cpu, mapped)
    \/ \E cpu \in Cores, r \in {"OK", "EDUNE"} : InitOne_Dune(cpu, r)
    \/ \E cpu \in Cores : InitOne_Registry(cpu)
    \/ \E cpu \in Cores, r \in {"OK", "ENOMEM"} : InitOne_Pool(cpu, r)

SpecBoot == BootInit /\ [][NextBoot]_vars

\* cpu_init alone, on every count and every /proc/cpuinfo, the file observed
NextScan ==
    /\ init_pc = "start"
    /\ \E n \in Counts, created \in BOOLEAN, opened \in BOOLEAN,
          f \in Files, garbage \in Garbage :
             /\ cpu_init(n, created, opened, f, garbage)
             /\ cpuinfo' = IF ~CountOutOfRange(n) /\ created
                           THEN [read |-> TRUE, opened |-> opened, file |-> f]
                           ELSE NoFile

SpecScan == BootInit /\ [][NextScan]_vars

\* cpu_init_one(c) has returned 0
Up(c) == bpc[c] = "done" /\ bret[c] = "OK"

\* after a cpu_init that returned 0 on a machine with NCPU cores, before any
\* cpu_init_one
ScannedInit ==
    /\ cpu_count = NCPU
    /\ cpus_active = 0
    /\ runners_datastore = TRUE
    /\ apicid_map = [i \in Slots |-> [processor |-> i, apicid |-> 10 + i]]
    /\ percpu_offsets = [c \in Cores |-> NULL]
    /\ cpu_id = [c \in Cores |-> Unset]
    /\ cpu_numa_node = [c \in Cores |-> Unset]
    /\ apicid = [c \in Cores |-> Unset]
    /\ mempool_created = [c \in Cores |-> FALSE]
    /\ pool = [c \in Cores |-> <<>>]
    /\ init_pc = "done"
    /\ init_ret = "OK"
    /\ init_trace = <<"datastore", "scan">>
    /\ scan_count = NCPU
    /\ cpuinfo = NoFile
    /\ bpc = [c \in Cores |-> "start"]
    /\ bret = [c \in Cores |-> "none"]
    /\ b_tmp = [c \in Cores |-> Unset]
    /\ b_numa = [c \in Cores |-> Unset]
    /\ b_pcpu = [c \in Cores |-> NULL]
    /\ in_dune = [c \in Cores |-> FALSE]
    /\ stages = [c \in Cores |-> <<>>]
    /\ ListInit

\* line 109 on a core that has no window: percpu_get_remote(runlist, cpu) is
\* an offset from percpu_offsets[cpu] = NULL, and spin_lock writes there;
\* the thread faults
RunOnOne_Fault(self) ==
    /\ sub[self] = "lock"
    /\ percpu_offsets[s_cpu[self]] = NULL
    /\ sub' = [sub EXCEPT ![self] = "fault"]
    /\ UNCHANGED <<globalVars, percpuVars, bootVars, listVars, pc, s_runner,
                   s_cpu, d_runner, d_last, obsVars>>

\* the cores come up one by one while the cores that are up already submit
\* and drain
NextEarly ==
    \/ \E cpu \in Cores, bound \in BOOLEAN : InitOne_Bind(cpu, bound)
    \/ \E cpu \in Cores, ok \in BOOLEAN, tmp \in Cores, numa \in NumaNodes :
          InitOne_GetCpu(cpu, ok, tmp, numa)
    \/ \E cpu \in Cores, mapped \in BOOLEAN : InitOne_Percpu(cpu, mapped)
    \/ \E cpu \in Cores, r \in {"OK", "EDUNE"} : InitOne_Dune(cpu, r)
    \/ \E cpu \in Cores : InitOne_Registry(cpu)
    \/ \E cpu \in Cores, r \in {"OK", "ENOMEM"} : InitOne_Pool(cpu, r)
    \/ \E self \in Cores, cpu \in CpuArgs : Up(self) /\ RunOnOne_Call(self, cpu)
    \/ \E self \in Cores :
          percpu_offsets[s_cpu[self]] # NULL /\ RunOnOne_LockPush(self)
    \/ \E self \in Cores : RunOnOne_Fault(self)
    \/ \E self \in Cores : RunOnOne_Unlock(self)
    \/ \E self \in Cores : Up(self) /\ Bookkeeping_Check(self)
    \/ \E self \in Cores : Bookkeeping_LockSwap(self)
    \/ \E self \in Cores : Bookkeeping_Unlock(self)
    \/ \E self \in Cores : Bookkeeping_Exec(self)
    \/ \E self \in Cores : Bookkeeping_Free(self)

SpecEarly == ScannedInit /\ [][NextEarly]_vars

(***************************************************************************)
(* What the claims speak of.                                               *)
(***************************************************************************)
Reverse(s) == [i \in 1 .. Len(s) |-> s[Len(s) + 1 - i]]

RECURSIVE ChainFrom(_, _)
\* the data of the runners linked from r, at most n of them
ChainFrom(r, n) ==
    IF r = NULL \/ n = 0 THEN <<>>
    ELSE <<runners[r].data>> \o ChainFrom(runners[r].next, n - 1)

ChainData(r) == ChainFrom(r, Cardinality(Runners))

Range(s) == {s[i] : i \in 1 .. Len(s)}

DataOf(s) == [i \in 1 .. Len(s) |-> s[i].data]

\* the entries of core c's log that ran data k
Runs(c, k) == {i \in 1 .. Len(log[c]) : log[c][i].data = k}

\* the n-th cpu_do_bookkeeping call of core c has returned
CallDone(c, n) == calls[c] > n \/ (calls[c] = n /\ pc[c] = "idle")

\* the chain core c captured at its last swap and has not run yet
Captured(c) ==
    IF pc[c] \in {"unlock", "call"} THEN ChainData(d_runner[c])
    ELSE IF pc[c] = "exec" THEN ChainData(runners[d_runner[c]].next)
    ELSE <<>>

\* the data pushed on c's list since its last swap
PushedSince(c) == SubSeq(pushseq[c], taken[c] + 1, Len(pushseq[c]))

\* the data pushed on c's list between its last two swaps
PushedBefore(c) == SubSeq(pushseq[c], takenPrev[c] + 1, taken[c])

\* the last n data of c's log
LastRun(c, n) == SubSeq(DataOf(log[c]), Len(log[c]) + 1 - n, Len(log[c]))

\* C1: the functions submitted to a core run in the reverse of the order in
\* which they were pushed (A, B, C run as C, B, A), each exactly once, and
\* the swap leaves on the list only what is pushed after it: in every state
\* the list holds the pushes made since the last swap, newest first, and what
\* the last draining call ran, followed by what it still holds, is the pushes
\* made between the last two swaps, newest first.
C1_LastSubmittedFirst ==
    \A c \in Cores :
        /\ ChainData(next_runner[c]) = Reverse(PushedSince(c))
        /\ Draining(c) =>
              LastRun(c, taken[c] - takenPrev[c] - Len(Captured(c))) \o Captured(c)
                  = Reverse(PushedBefore(c))
        /\ pc[c] \in {"idle", "lock"} =>
              LastRun(c, taken[c] - takenPrev[c]) = Reverse(PushedBefore(c))
        /\ \A i, j \in 1 .. Len(log[c]) : log[c][i].data = log[c][j].data => i = j

\* C1 witness: three pushes on an empty list, then one call that ran them
\* newest first and left the list empty
C1_Witness ==
    \E c \in Cores :
        /\ pc[c] = "idle" /\ next_runner[c] = NULL
        /\ Len(pushseq[c]) = 3 /\ taken[c] = 3 /\ takenPrev[c] = 0
        /\ DataOf(log[c]) = <<pushseq[c][3], pushseq[c][2], pushseq[c][1]>>
        /\ \A i \in 1 .. 3 : log[c][i].call = log[c][1].call

\* C2: once a cpu_do_bookkeeping call of core t that started after the
\* submissions returned has itself returned, every successful submission to
\* t, whichever core made it, has run exactly once on t, with the function
\* and the argument it was submitted with, and on no other core.
C2_AllRunOnce ==
    \A t \in Cores, k \in Tickets :
        (/\ hist[k].st = "OK" /\ hist[k].cpu = t
         /\ \E n \in 1 .. MaxDrains : hist[k].retCalls < n /\ CallDone(t, n))
        => /\ Cardinality(Runs(t, k)) = 1
           /\ \A i \in Runs(t, k) : log[t][i].func = hist[k].func
           /\ \A c \in Cores \ {t} : Runs(c, k) = {}

\* C2 witness: two cores raced to one target (the call that started second
\* pushed first), and one call on the target ran both
C2_Witness ==
    \E t \in Cores :
        /\ hist[1].by # hist[2].by
        /\ hist[1].st = "OK" /\ hist[2].st = "OK"
        /\ hist[1].retCalls = 0 /\ hist[2].retCalls = 0
        /\ pushseq[t] = <<2, 1>>
        /\ CallDone(t, 1)
        /\ DataOf(log[t]) = <<1, 2>>

\* C3: a runner pushed on core t's list after t's cpu_do_bookkeeping call
\* number n has swapped the head (also one pushed by the function that call
\* is running) is not run by call n; it stays on the list until call n + 1
\* captures it, it runs in call n + 1 and only there, once.
C3_PushedDuringDrain ==
    \A k \in Tickets :
        hist[k].during =>
            LET t == hist[k].cpu
                n == hist[k].pushCall
            IN  /\ \A i \in Runs(t, k) : log[t][i].call = n + 1
                /\ Cardinality(Runs(t, k)) <= 1
                /\ calls[t] = n => k \in Range(ChainData(next_runner[t]))
                /\ Runs(t, k) = {} =>
                       \/ k \in Range(ChainData(next_runner[t]))
                       \/ k \in Range(Captured(t))
                /\ CallDone(t, n + 1) => Runs(t, k) # {}

\* C3 witness: a function running on core t submitted to t itself, and the
\* next call ran the submission
C3_Witness ==
    \E k \in Tickets :
        /\ hist[k].during /\ hist[k].by = hist[k].cpu
        /\ \E i \in Runs(hist[k].cpu, k) :
               log[hist[k].cpu][i].call = hist[k].pushCall + 1

\* no call is in progress and no list holds a runner
Quiescent ==
    \A c \in Cores : pc[c] = "idle" /\ sub[c] = "none" /\ next_runner[c] = NULL

\* C4, as claimed: when everything submitted has been drained, every core's
\* pool holds what it held before the submissions.
C4_PoolsRestored ==
    Quiescent => \A c \in Cores : Range(pool[c]) = Range(PoolOf(c))

\* C5, as claimed: a cpu_run_on_one call to a valid target t fails with
\* -ENOMEM exactly when t's pool has no free runner.
C5_ExhaustedIffTargetPoolEmpty ==
    [][\A k \in Tickets :
          (nsub = k - 1 /\ nsub' = k /\ hist'[k].cpu < cpu_count)
          => (hist'[k].st = "ENOMEM" <=> pool[hist'[k].cpu] = <<>>)]_vars

\* C6: a cpu_run_on_one call whose cpu is >= cpu_count returns -EINVAL and
\* changes no pool, no list, no lock and no runner.
C6_InvalidTargetChangesNothing ==
    [][\A k \in Tickets :
          (nsub = k - 1 /\ nsub' = k /\ hist'[k].cpu >= cpu_count)
          => /\ hist'[k].st = "EINVAL"
             /\ UNCHANGED <<pool, next_runner, lock, runners, sub, s_runner>>]_vars

\* C6 witness: a call with cpu = cpu_count was refused
C6_Witness ==
    \E k \in Tickets : hist[k].cpu = cpu_count /\ hist[k].st = "EINVAL"

\* C7, as claimed: what a successful submission queued runs at the first
\* cpu_do_bookkeeping call of the target that starts after the submission
\* returned.
C7_RunsAtFirstLaterCall ==
    \A k \in Tickets :
        hist[k].st = "OK" =>
            \A i \in Runs(hist[k].cpu, k) :
                log[hist[k].cpu][i].call = hist[k].retCalls + 1

\* C7, amended: what a successful submission queued runs exactly once, on
\* the target, no later than the first cpu_do_bookkeeping call of the target
\* that starts after the submission returned (a call that had started before
\* the return, and swaps after the push, runs it too); until it runs it is
\* on the target's list or in the chain the target captured, and when that
\* first later call returns it has run.
C7_RunsOnceByFirstLaterCall ==
    \A k \in Tickets :
        hist[k].st \in {"pushed", "OK"} =>
            LET t == hist[k].cpu
            IN  /\ Cardinality(Runs(t, k)) <= 1
                /\ \A c \in Cores \ {t} : Runs(c, k) = {}
                /\ Runs(t, k) = {} =>
                       \/ k \in Range(ChainData(next_runner[t]))
                       \/ k \in Range(Captured(t))
                /\ hist[k].st = "OK" =>
                       /\ \A i \in Runs(t, k) :
                              /\ log[t][i].call <= hist[k].retCalls + 1
                              /\ log[t][i].func = hist[k].func
                       /\ CallDone(t, hist[k].retCalls + 1) => Runs(t, k) # {}

\* C7 witness: a submission returned after the target had made a call, and
\* the target's next call ran it
C7_Witness ==
    \E k \in Tickets :
        /\ hist[k].st = "OK" /\ hist[k].retCalls >= 1
        /\ \E i \in Runs(hist[k].cpu, k) :
               log[hist[k].cpu][i].call = hist[k].retCalls + 1

\* apicid_map's entry for processor i: the first slot that names it
EntryFor(i, j) ==
    /\ apicid_map[j].processor = i
    /\ \A j2 \in Slots : j2 < j => apicid_map[j2].processor # i

C9_BadCountInitializesNothing ==
    (init_pc = "done" /\ (cpu_count <= 0 \/ cpu_count > NCPU))
    => /\ init_ret = "EINVAL"
       /\ init_trace = <<>>
       /\ ~runners_datastore
       /\ apicid_map = ZeroTable

\* C9 witness: cpu_init refused a count above NCPU
C9_Witness == init_pc = "done" /\ cpu_count > NCPU /\ init_ret = "EINVAL"

IsPrefix(s, t) == Len(s) <= Len(t) /\ \A i \in 1 .. Len(s) : s[i] = t[i]

First(n) == SubSeq(StageOrder, 1, n)

\* the order of the stages as claimed: the check of the running core belongs
\* to the bind and precedes the topology query
ClaimedOrder == <<"bind", "check", "query", "window", "enter", "registry", "pool">>

\* C10, as claimed: the stages run in the order bind, check of the running
\* core, topology query, window, privileged entry, registry, pool.
C10_StagesInClaimedOrder == \A c \in Cores : IsPrefix(stages[c], ClaimedOrder)

\* C10, amended: the stages run in the order bind (sched_setaffinity),
\* topology query (getcpu, which reports the running core and the numa
\* node), check that the running core is the requested one, window,
\* privileged entry, registry, pool; each runs only if all the earlier ones
\* succeeded; the first failing stage ends the call with that stage's error
\* (a failed registry assertion aborts) and no later stage runs: the
\* privileged entry is never made without a window, and after a failed
\* entry neither the percpu variables nor the pool are written.
C10_StagesInOrder ==
    \A c \in Cores :
        /\ IsPrefix(stages[c], StageOrder)
        /\ bpc[c] = "done" =>
              /\ bret[c] = "EPERM" => stages[c] = First(1)
              /\ bret[c] = "ENOSYS" => stages[c] = First(2)
              /\ bret[c] = "EINVAL" => stages[c] \in {First(0), First(3)}
              /\ bret[c] = "ENOMEM" => stages[c] \in {First(4), First(7)}
              /\ bret[c] = "EDUNE" => stages[c] = First(5)
              /\ bret[c] = "OK" => stages[c] = First(7)
        /\ bpc[c] = "aborted" => stages[c] = First(6)
        /\ Len(stages[c]) >= 4 => b_tmp[c] = c
        /\ Len(stages[c]) >= 5 =>
              percpu_offsets[c] = WindowOf(c) /\ b_pcpu[c] = WindowOf(c)
        /\ (bpc[c] = "done" /\ bret[c] = "EDUNE") =>
              /\ ~in_dune[c] /\ ~mempool_created[c] /\ pool[c] = <<>>
              /\ cpu_id[c] = 0 /\ cpu_numa_node[c] = 0 /\ apicid[c] = 0
        /\ Len(stages[c]) >= 6 => in_dune[c]
        /\ mempool_created[c] => Up(c)

\* C10 witness: the privileged entry failed on a core that had its window;
\* the call returned the primitive's error after five stages
C10_Witness ==
    \E c \in Cores :
        /\ bpc[c] = "done" /\ bret[c] = "EDUNE"
        /\ stages[c] = First(5)
        /\ percpu_offsets[c] = WindowOf(c)

\* core h is inside the critical section of a push on c's list (lines
\* 110-111 done, line 112 next)
Pushing(h, c) == sub[h] = "unlock" /\ s_cpu[h] = c

\* core c is inside the critical section of its swap (lines 127-128 done,
\* line 129 next)
Swapping(c) == pc[c] = "unlock"

\* C11, as claimed: in every state where a function queued for core c is
\* running on c, the lock of c's list is free.
C11_LockFreeWhileRunning ==
    \A c \in Cores : pc[c] = "exec" => lock[c] = NoHolder

\* C11, amended: a list's lock is held only by a core that is between the
\* two pointer assignments of a push and its unlock, or by the owner between
\* its swap and its unlock; the owner never holds it for its drain while a
\* function runs (while a function runs on c, c's lock is free or held by a
\* core in the middle of a push on c's list, the running function's own push
\* included); the holder's unlock is always its next step, so a core waiting
\* to push never waits for a function to return, and nothing deadlocks.
C11_LockOnlyForPointers ==
    /\ \A c \in Cores :
          lock[c] # NoHolder =>
              /\ \/ Pushing(lock[c], c) /\ ENABLED RunOnOne_Unlock(lock[c])
                 \/ lock[c] = c /\ Swapping(c) /\ ENABLED Bookkeeping_Unlock(c)
              /\ pc[c] \in {"call", "exec"} => Pushing(lock[c], c)
    /\ \A c \in Cores : Swapping(c) => lock[c] = c
    /\ \A h \in Cores : sub[h] = "unlock" => lock[s_cpu[h]] = h
    /\ \A h \in Cores :
          (sub[h] = "lock" /\ pc[s_cpu[h]] = "exec") =>
              \/ ENABLED RunOnOne_LockPush(h)
              \/ /\ Pushing(lock[s_cpu[h]], s_cpu[h])
                 /\ ENABLED RunOnOne_Unlock(lock[s_cpu[h]])

\* C11 witness: the first function core t ran is still running, and the
\* cpu_run_on_one call it made to its own core has pushed and returned 0
C11_Witness ==
    \E k \in Tickets :
        LET t == hist[k].cpu
        IN  /\ hist[k].st = "OK" /\ hist[k].by = t /\ hist[k].during
            /\ pc[t] = "exec" /\ Len(log[t]) = 1
            /\ calls[t] = hist[k].pushCall
            /\ lock[t] = NoHolder

\* the processor and apicid lines of a file, in the file's order
Keyed(f) == SelectSeq(f, LAMBDA l : l.key \in {"processor", "apicid"})

\* a line whose number sscanf cannot read
Unparsable(f) == \E i \in 1 .. Len(f) : ~f[i].ok

\* an apicid line that does not follow a processor line of its own
OrphanApicid(f) ==
    \E i \in 1 .. Len(Keyed(f)) :
        /\ Keyed(f)[i].key = "apicid"
        /\ i = 1 \/ Keyed(f)[i - 1].key # "processor"

\* a processor line that no apicid line follows
OrphanProcessor(f) ==
    \E i \in 1 .. Len(Keyed(f)) :
        /\ Keyed(f)[i].key = "processor"
        /\ i = Len(Keyed(f)) \/ Keyed(f)[i + 1].key # "apicid"

\* the records of a file: a processor line and the apicid line after it
RecordsOf(f) ==
    {<<Keyed(f)[i].val, Keyed(f)[i + 1].val>> :
        i \in {j \in 1 .. (Len(Keyed(f)) - 1) :
                  /\ Keyed(f)[j].key = "processor"
                  /\ Keyed(f)[j + 1].key = "apicid"}}

\* a file of records only, no processor named twice, that reads to its end
WellFormed(f) ==
    /\ ~Unparsable(f) /\ ~OrphanApicid(f) /\ ~OrphanProcessor(f)
    /\ \A i \in 1 .. Len(f) : f[i].key # "error"
    /\ \A r1, r2 \in RecordsOf(f) : r1[1] = r2[1] => r1 = r2

\* parse_cpuinfo has run on the observed file
Scanned == init_pc = "done" /\ cpuinfo.read /\ cpuinfo.opened

\* the indices a caller may look up: the cores, and one past them
Indices == 0 .. NCPU

\* C12, as claimed: after a successful scan of a well-formed file, a lookup
\* of index i in apicid_map (lines 209-211) finds an entry exactly when the
\* file has a record for processor i, and the entry holds the apicid of that
\* record.
C12_TableIsTheSource ==
    (Scanned /\ init_ret = "OK" /\ WellFormed(cpuinfo.file)) =>
        \A i \in Indices :
            /\ LookupSlot(i) < NCPU <=> \E r \in RecordsOf(cpuinfo.file) : r[1] = i
            /\ LookupSlot(i) < NCPU =>
                   <<i, apicid_map[LookupSlot(i)].apicid>> \in RecordsOf(cpuinfo.file)

\* C13, as claimed: the scan returns -EIO for every file that has a
\* processor or apicid line whose number cannot be read, an apicid line not
\* preceded by its own processor line, or a processor line without an apicid
\* line.
C13_MalformedFails ==
    (/\ Scanned
     /\ \/ Unparsable(cpuinfo.file)
        \/ OrphanApicid(cpuinfo.file)
        \/ OrphanProcessor(cpuinfo.file))
    => init_ret = "EIO"

\* the scan wrote a slot for processor c
Recorded(c) == \E j \in Slots : j < scan_count /\ apicid_map[j].processor = c

\* cpu_init_one(c) has executed its registry stage (lines 207-213)
PastRegistry(c) == \E i \in 1 .. Len(stages[c]) : stages[c][i] = "registry"

\* C14, as claimed: when cpu_init_one(c) reaches the registry and the scan
\* wrote no slot for processor c, the assertion of line 212 fails; the
\* apicid is never taken from a slot the scan did not write.
C14_AssertsWithoutEntry ==
    \A c \in Cores :
        PastRegistry(c) =>
            /\ ~Recorded(c) => bpc[c] = "aborted"
            /\ bpc[c] # "aborted" => LookupSlot(c) < scan_count

RECURSIVE ChainNodes(_, _)
\* the runners linked from r, at most n of them
ChainNodes(r, n) ==
    IF r = NULL \/ n = 0 THEN <<>>
    ELSE <<r>> \o ChainNodes(runners[r].next, n - 1)

\* the runners on core c's list
Queued(c) == ChainNodes(next_runner[c], Cardinality(Runners) + 1)

\* the runners core c captured at its swap and has not freed yet: the one
\* whose function is running included
Held(c) ==
    IF Draining(c) THEN ChainNodes(d_runner[c], Cardinality(Runners) + 1)
    ELSE <<>>

\* how many times r occurs in s
Occurs(s, r) == Cardinality({i \in 1 .. Len(s) : s[i] = r})

\* the cores that have allocated r and not pushed it yet (lines 99-109)
Allocated(r) == {c \in Cores : sub[c] = "lock" /\ s_runner[c] = r}

RECURSIVE SumTo(_, _)
\* f[0] + ... + f[n - 1]
SumTo(f, n) == IF n = 0 THEN 0 ELSE f[n - 1] + SumTo(f, n - 1)

\* in how many places runner r is, a place counted as often as r occurs in
\* it: the pools' free lists, the cores' lists, the captured chains
PlaceCount(r) ==
    SumTo([c \in Cores |-> Occurs(pool[c], r)], NCPU)
    + SumTo([c \in Cores |-> Occurs(Queued(c), r)], NCPU)
    + SumTo([c \in Cores |-> Occurs(Held(c), r)], NCPU)

\* C15, as claimed: every runner is in exactly one of: a pool's free list,
\* one core's list, the chain one drain in progress has captured.
C15_OnePlaceOfThree == \A r \in Runners : PlaceCount(r) = 1

\* C15, amended: every runner is in exactly one of: a pool's free list, one
\* core's list, the chain one drain in progress has captured (the runner
\* whose function is running included, until it is freed), or the hands of
\* one cpu_run_on_one call that has allocated it and not pushed it yet.  No
\* runner is free and linked at once or linked in two chains, and the drain
\* reads func, data and next only of a runner it holds, never of a freed
\* one.
C15_OnePlace ==
    /\ \A r \in Runners : PlaceCount(r) + Cardinality(Allocated(r)) = 1
    /\ \A c \in Cores :
          Draining(c) =>
              /\ d_runner[c] \in Runners
              /\ \A p \in Cores : Occurs(pool[p], d_runner[c]) = 0
              /\ pc[c] = "exec" => d_last[c] = d_runner[c]
    /\ \A p \in Cores : \A i \in 1 .. Len(pool[p]) : pool[p][i] \in Runners

\* C15 witness: at one time one runner is free, one is on a list, one is
\* held by a drain whose function runs, one is allocated and not yet pushed
C15_Witness ==
    \E r1, r2, r3, r4 \in Runners :
        /\ \E p \in Cores : Occurs(pool[p], r1) = 1
        /\ \E c \in Cores : Occurs(Queued(c), r2) = 1
        /\ \E c \in Cores : pc[c] = "exec" /\ d_last[c] = r3
        /\ Allocated(r4) # {}

\* core c makes the test of line 125 in this step
ReadsHeadAtCheck(c) == calls'[c] # calls[c]

\* core h executes lines 110-111 on c's list in this step
PushesOn(h, c) == sub[h] = "lock" /\ sub'[h] = "unlock" /\ s_cpu[h] = c

\* core c executes lines 127-128 in this step
Swaps(c) == pc[c] = "lock" /\ pc'[c] = "unlock"

\* C16, as claimed: every read and every write of a list's head is made by
\* a core that holds the list's lock, and one core at most holds a lock: the
\* test of line 125, the push of lines 110-111 and the swap of lines
\* 127-128 are all made under the lock.
C16_HeadOnlyUnderLock ==
    [][\A c \in Cores :
          /\ ReadsHeadAtCheck(c) => lock[c] = c
          /\ \A h \in Cores : PushesOn(h, c) => lock'[c] = h
          /\ Swaps(c) => lock'[c] = c
          /\ next_runner'[c] # next_runner[c] =>
                 \/ Swaps(c)
                 \/ \E h \in Cores : PushesOn(h, c)]_vars

\* C17, as claimed: whenever a cpu_run_on_one call has passed the check of
\* line 96 and taken its runner, the target core has its window (its run
\* list exists) and the pool the runner was taken from has been created.
C17_TargetReady ==
    \A s \in Cores :
        sub[s] \in {"lock", "unlock", "fault"} =>
            /\ percpu_offsets[s_cpu[s]] # NULL
            /\ mempool_created[s]

\* C18: a runner submitted with target t runs on core t only: everything a
\* core's list holds, everything a core has captured and everything a core
\* has run was submitted with that core as target and pushed on that core's
\* list, whichever core submitted it.
C18_RunsOnTargetOnly ==
    \A c \in Cores :
        /\ \A i \in 1 .. Len(log[c]) :
              /\ hist[log[c][i].data].cpu = c
              /\ log[c][i].data \in Range(pushseq[c])
        /\ \A k \in Range(ChainData(next_runner[c])) \cup Range(Captured(c)) :
              hist[k].cpu = c /\ k \in Range(pushseq[c])
        /\ \A k \in Range(pushseq[c]) : hist[k].cpu = c

\* C18 witness: each core submitted to the other, and each ran what the
\* other had submitted to it
C18_Witness ==
    \E k1, k2 \in Tickets :
        /\ hist[k1].by = 1 /\ hist[k1].cpu = 0 /\ Runs(0, k1) # {}
        /\ hist[k2].by = 0 /\ hist[k2].cpu = 1 /\ Runs(1, k2) # {}

\* C19: with the owner as the only core that empties its list, the unlocked
\* test of line 125 is safe.  A core that saw its head non-empty finds it
\* non-empty still when it has the lock (a list loses runners only by its
\* owner's swap), so the chain it captures is never empty and the do-while
\* never reads through NULL.  A call that saw the head empty returns at once:
\* it runs nothing and changes no list and no pool, so what is pushed
\* meanwhile stays on the list for a later call.  Nothing runs outside a
\* call that captured a chain.
C19_UnlockedCheckSafe ==
    [][\A c \in Cores :
          /\ pc'[c] = "lock" => next_runner'[c] # NULL
          /\ Swaps(c) => d_runner'[c] = next_runner[c] /\ next_runner[c] # NULL
          /\ Draining(c)' => d_runner'[c] \in Runners
          /\ (ReadsHeadAtCheck(c) /\ next_runner[c] = NULL) =>
                 /\ pc'[c] = "idle"
                 /\ UNCHANGED <<log, next_runner, pool, runners, lock>>
          /\ (next_runner[c] # NULL /\ next_runner'[c] = NULL) => Swaps(c)
          /\ log'[c] # log[c] => pc[c] = "call" /\ d_runner[c] \in Runners]_vars

\* C19 witness: core c saw its head non-empty and waits for its lock, which
\* a producer holds that has just pushed a second runner on c's list
C19_Witness ==
    \E c \in Cores :
        /\ pc[c] = "lock"
        /\ lock[c] # NoHolder /\ lock[c] # c
        /\ Len(ChainData(next_runner[c])) = 2

\* cpu_init_one(c) executes its window stage (lines 197-199) in this step
AllocatesWindow(c) == bpc[c] = "percpu" /\ bpc'[c] # "percpu"

\* C20: cpu_init_percpu is all or nothing.  When the pages cannot be mapped
\* it returns NULL, percpu_offsets is left as it was, and cpu_init_one
\* returns -ENOMEM at once: dune_enter_ex is not called, then or later.  An
\* entry of percpu_offsets is written only by a cpu_init_percpu that mapped
\* its pages, with the percpu area zeroed, and is the core's window.
C20_WindowAllOrNothing ==
    [][\A c \in Cores :
          /\ (AllocatesWindow(c) /\ b_pcpu'[c] = NULL) =>
                 /\ UNCHANGED <<percpu_offsets, cpu_id, cpu_numa_node, apicid>>
                 /\ bpc'[c] = "done" /\ bret'[c] = "ENOMEM"
                 /\ ~in_dune'[c]
                 /\ stages'[c] = First(4)
          /\ percpu_offsets'[c] # percpu_offsets[c] =>
                 /\ AllocatesWindow(c)
                 /\ percpu_offsets'[c] = WindowOf(c) /\ b_pcpu'[c] = WindowOf(c)
                 /\ cpu_id'[c] = 0 /\ cpu_numa_node'[c] = 0 /\ apicid'[c] = 0
                 /\ next_runner'[c] = NULL /\ lock'[c] = NoHolder
                 /\ bpc'[c] = "dune"
          /\ (bpc[c] = "done" /\ bret[c] = "ENOMEM" /\ stages[c] = First(4)) =>
                 /\ percpu_offsets'[c] = NULL
                 /\ UNCHANGED <<bpc[c], bret[c], stages[c], in_dune[c]>>
          /\ in_dune'[c] => percpu_offsets'[c] = WindowOf(c)]_vars

\* C20 witness: the pages of core c could not be mapped: cpu_init_one(c)
\* returned -ENOMEM after four stages, its entry of percpu_offsets is NULL
\* still, and the other core has its window
C20_Witness ==
    \E c, o \in Cores :
        /\ bpc[c] = "done" /\ bret[c] = "ENOMEM" /\ stages[c] = First(4)
        /\ percpu_offsets[c] = NULL /\ b_pcpu[c] = NULL /\ ~in_dune[c]
        /\ o # c /\ percpu_offsets[o] = WindowOf(o)

====
